------------------------------ MODULE Spec2Model ------------------------------
(***************************************************************************)
(* A model of the whisper bridge (whisper_bridge.cpp): one session object  *)
(* (whisper_bridge_context) driven by caller threads through the C API.    *)
(*                                                                         *)
(* Every API function takes the session mutex with a lock_guard for its    *)
(* whole body.  A function whose body has no effect another thread or the  *)
(* callback sink could observe before it returns is one action; push and   *)
(* stop are split at the points where the segment callback is invoked, so  *)
(* that each callback delivery is one step.                                *)
(*                                                                         *)
(* The stream buffer (std::vector<float>) is modelled by the positions of  *)
(* the samples it holds.  The code only appends at the back, erases at the *)
(* front or clears, so the buffer is [first, size]: numbering from 0 the   *)
(* samples it held after the last insert, it now holds the samples         *)
(* first .. first+size-1 (first counts the samples erased at the front     *)
(* since the last insert).                                                 *)
(*                                                                         *)
(* The engine (whisper.cpp) is an external collaborator: whisper_full is a *)
(* nondeterministic choice of a return code, a list of segment texts and a *)
(* language id.                                                            *)
(***************************************************************************)
EXTENDS Integers, Sequences, FiniteSets, TLC

(***************************************************************************)
(* Program constants                                                       *)
(***************************************************************************)
\* stream_step_samples(16000 * 2)
StepSamples == 32000
\* int keep = 16000 / 2
KeepSamples == 8000
\* n_threads(4), and the fallback of whisper_bridge_set_threads
DefaultThreads == 4
\* the largest int32_t
Int32Max == 2147483647

(***************************************************************************)
(* Bounds of the model                                                     *)
(***************************************************************************)
\* most segments one inference pass produces
MaxSeg == 2
\* most samples past 2^31 the buffer is given room for: an insert that needs
\* more does not come back (std::bad_alloc)
MaxExtra == 24000

NULL == "NULL"
CTX == "ctx"
NoThread == "none"
Threads == {"t1", "t2"}

\* inputs of the callers: the arguments of each function, the session first
\* (NULL where the function is called without one)
LangArgs == {<<CTX, "auto">>, <<CTX, "en">>, <<CTX, "xx">>, <<CTX, NULL>>,
             <<NULL, "en">>}
ThreadArgs == {<<CTX, 2>>, <<CTX, 0>>, <<NULL, 2>>}
BatchArgs == {<<CTX, "buf", 16000>>, <<CTX, "buf", 0>>, <<CTX, NULL, 16000>>,
              <<NULL, "buf", 16000>>}
StartArgs == {<<CTX, "cb1", "ud1">>, <<CTX, "cb2", NULL>>, <<CTX, NULL, "ud1">>,
              <<NULL, "cb1", "ud1">>}
PushArgs == {<<CTX, "buf", 8000>>, <<CTX, "buf", 16000>>, <<CTX, "buf", 16001>>,
             <<CTX, "buf", Int32Max>>, <<CTX, "buf", 0>>,
             <<CTX, NULL, 16000>>, <<NULL, "buf", 16000>>}
CtxArgs == {CTX, NULL}

\* the calls of callers that run concurrently: of each function a call the
\* session accepts and, where there is one, a call it rejects
SharedLangArgs == {<<CTX, "en">>, <<CTX, "xx">>}
SharedThreadArgs == {<<CTX, 0>>}
SharedBatchArgs == {<<CTX, "buf", 16000>>, <<CTX, "buf", 0>>}
SharedStartArgs == {<<CTX, "cb1", "ud1">>, <<CTX, NULL, "ud1">>}
SharedPushArgs == {<<CTX, "buf", 16000>>, <<CTX, "buf", 16001>>, <<CTX, "buf", 0>>}
SharedCtxArgs == {CTX}

\* what the engine can answer
\* the bridge never looks into a segment's text: the text of the k-th segment
\* of a pass is a token that tells the segments of the pass apart
SegText(k) == <<"a", "b", "c", "d">>[k]
SegLists == {[k \in 1..n |-> SegText(k)] : n \in 0..MaxSeg}
LangIds == {0, 3}
Durations == {0, 7}

Min(a, b) == IF a < b THEN a ELSE b

(***************************************************************************)
(* State                                                                   *)
(***************************************************************************)
VARIABLES
    alive,             \* the whisper_bridge_context object exists (not deleted)
    wctx,              \* ctx->wctx: "engine" or NULL
    mtx,               \* ctx->mtx: the thread that holds it, or NoThread
    language,          \* ctx->language
    n_threads,         \* ctx->n_threads
    streaming,         \* ctx->streaming
    stream_buffer,     \* ctx->stream_buffer: [first, size], see above
    stream_callback,   \* ctx->stream_callback
    stream_user_data,  \* ctx->stream_user_data
    last_result_text,  \* ctx->last_result_text: the strings appended to it
    eng_segs,          \* the engine's segment texts of its last whisper_full
    uaf,               \* a thread has touched the session after its deletion
    callers,           \* the threads that call into the session
    pc,                \* per thread: where it is in the call it is making
    op,                \* per thread: the arguments of that call
    local,             \* per thread: the locals of that call
    returned,          \* the call that returned in the last step, if one did
    stream_pushed,     \* history: samples appended on the current stream,
                       \* counted up to StepSamples
    last_delivery      \* history: the last callback invocation of the segment
                       \* loop that is running

session == <<alive, wctx, mtx, language, n_threads, streaming, stream_buffer,
             stream_callback, stream_user_data, last_result_text>>
engine == <<eng_segs, uaf>>
threads == <<callers, pc, op, local, returned>>
history == <<stream_pushed, last_delivery>>
\* the calls the callers choose from: all of them for a single caller, the
\* shared ones for concurrent callers
Calls(all, shared) == IF Cardinality(callers) > 1 THEN shared ELSE all

vars == <<session, engine, threads, history>>

(***************************************************************************)
(* Values                                                                  *)
(***************************************************************************)
\* whisper_bridge_result empty = { "", 0, -1, 0.0f, 0 }; text is a literal,
\* not a pointer into ctx->last_result_text
EmptyResult ==
    [text |-> <<>>, alias |-> FALSE, segments |-> 0, lang_id |-> -1,
     lang_prob |-> 0, duration_ms |-> 0]

\* what a call returned: an int32_t status, a whisper_bridge_result, or nothing
RvNone == [kind |-> "none", code |-> 0, res |-> EmptyResult]
RvVoid == [kind |-> "void", code |-> 0, res |-> EmptyResult]
RvInt(c) == [kind |-> "int", code |-> c, res |-> EmptyResult]
RvResult(r) == [kind |-> "result", code |-> 0, res |-> r]

\* std::vector<float>: empty, insert len samples at the end, erase n samples
\* at the front.  size() is a size_t: it is kept as high * 2^31 + size with
\* size in 0..Int32Max.  first is the position of the first sample, counted
\* from the first sample the buffer had at the last insert.
EmptyBuffer == [first |-> 0, size |-> 0, high |-> 0]
\* mutant: the chunk replaces the buffer's content instead of extending it
BufferInsert_Assign(buf, len) == [first |-> 0, size |-> len, high |-> 0]
BufferInsert(buf, len) ==
    IF buf.size <= Int32Max - len
      THEN [first |-> 0, size |-> buf.size + len, high |-> buf.high]
      ELSE [first |-> 0, size |-> ((buf.size - Int32Max) - 1) + len,
            high |-> buf.high + 1]
BufferEraseFront(buf, n) == [buf EXCEPT !.first = @ + n, !.size = @ - n]
\* mutant: the clear is missing
BufferClear_Missing(buf) == buf
\* stream_buffer.clear()
BufferClear(buf) == EmptyBuffer
\* stream_buffer.empty()
BufferEmpty(buf) == buf.size = 0 /\ buf.high = 0
\* the insert finds room for the samples
BufferFits(buf) == buf.high = 0 \/ (buf.high = 1 /\ buf.size <= MaxExtra)

\* the arguments of a call; the fields a function does not take are NULL / 0
NoOp == [name |-> "none", ctx |-> NULL, lang |-> NULL, n |-> 0,
         data |-> NULL, len |-> 0, cb |-> NULL, ud |-> NULL]
OpOf(name, c) == [NoOp EXCEPT !.name = name, !.ctx = c]

\* the locals of a call in progress, and what it did so far: the inference
\* passes it ran (passes), the callback invocations it made (delivered) and
\* the buffer content a start discarded (dropped)
NoLocal == [ret |-> 0, n_seg |-> 0, i |-> 0, lang_id |-> -1, duration_ms |-> 0,
            passes |-> <<>>, delivered |-> <<>>, dropped |-> EmptyBuffer]

\* the call that returned in the last step: its arguments, final locals and
\* return value
NoReturn == [op |-> NoOp, local |-> NoLocal, value |-> RvNone]
Returned(o, l, v) == [op |-> o, local |-> l, value |-> v]

NoDelivery == [thread |-> NoThread, idx |-> 0, n |-> 0]

(***************************************************************************)
(* The engine, as the bridge uses it                                       *)
(***************************************************************************)
\* whisper_lang_id: the id of a language code, negative if unknown
whisper_lang_id(lang) ==
    CASE lang = "en" -> 0
      [] lang = "es" -> 3
      [] OTHER -> -1

\* whisper_full: a return code (0 on success), the segment texts the engine
\* then holds, and the language id it reports.  After a failed pass the
\* engine may hold the segments it decoded before failing.
whisper_full(params, n_samples) ==
    {[ret |-> r, segs |-> sg, lang_id |-> l] :
        r \in {0, -1}, sg \in SegLists,
        l \in IF params.detect_language THEN LangIds
              ELSE {whisper_lang_id(params.language)}}

\* whisper_full_n_segments
whisper_full_n_segments == Len(eng_segs)

\* whisper_full_get_segment_text
whisper_full_get_segment_text(i) ==
    IF i + 1 \in DOMAIN eng_segs THEN eng_segs[i + 1] ELSE NULL

(***************************************************************************)
(* Helpers                                                                 *)
(***************************************************************************)
\* mutant: the language of the session is ignored, detection always requested
make_params_AlwaysDetect ==
    [n_threads |-> n_threads, no_context |-> TRUE, single_segment |-> FALSE,
     translate |-> FALSE, no_timestamps |-> TRUE, best_of |-> 1,
     language |-> NULL, detect_language |-> TRUE]

\* make_params
make_params ==
    [n_threads |-> n_threads, no_context |-> TRUE, single_segment |-> FALSE,
     translate |-> FALSE, no_timestamps |-> TRUE, best_of |-> 1,
     language |-> IF language = "auto" THEN NULL ELSE language,
     detect_language |-> (language = "auto")]

\* mutant: the loop of make_result stops after its first turn
JoinSegments_FirstOnly(text, i, n_segments) ==
    IF i >= n_segments THEN text
    ELSE LET seg_text == whisper_full_get_segment_text(i)
         IN  IF seg_text # NULL THEN Append(text, seg_text) ELSE text

\* the loop of make_result: the text built from segments i .. n_segments-1,
\* appended to text
RECURSIVE JoinSegments(_, _, _)
JoinSegments(text, i, n_segments) ==
    IF i >= n_segments THEN text
    ELSE LET seg_text == whisper_full_get_segment_text(i)
             sep == IF text # <<>> THEN text \o <<" ">> ELSE text
         IN  IF seg_text # NULL
               THEN JoinSegments(IF seg_text = "" THEN sep ELSE Append(sep, seg_text),
                                 i + 1, n_segments)
               ELSE JoinSegments(text, i + 1, n_segments)

\* make_result: the new last_result_text
ResultText(n_segments) == JoinSegments(<<>>, 0, n_segments)

\* make_result: the result record; text points into ctx->last_result_text
make_result(n_segments, lang_id, lang_prob, duration_ms) ==
    [text |-> ResultText(n_segments), alias |-> TRUE, segments |-> n_segments,
     lang_id |-> lang_id, lang_prob |-> lang_prob, duration_ms |-> duration_ms]

\* one inference pass, as a call records it: the parameters and the samples
InferencePass(params, source, first, n) ==
    [params |-> params, source |-> source, first |-> first, n |-> n]

\* mutant: the functions do not take the mutex
CanLock_NoMutex(t) == TRUE

\* std::lock_guard<std::mutex> lock(ctx->mtx): the caller can take the mutex
CanLock(t) == mtx = NoThread

\* static_cast<int32_t>(buf.size()): a size above INT32_MAX wraps around
ToInt32(buf) ==
    IF buf.high % 2 = 0 THEN buf.size ELSE (buf.size - Int32Max) - 1

(***************************************************************************)
(* Initial state: whisper_bridge_init succeeded                            *)
(***************************************************************************)
InitSession ==
    /\ alive = TRUE
    /\ wctx = "engine"
    /\ mtx = NoThread
    /\ language = "auto"
    /\ n_threads = DefaultThreads
    /\ streaming = FALSE
    /\ stream_buffer = EmptyBuffer
    /\ stream_callback = NULL
    /\ stream_user_data = NULL
    /\ last_result_text = <<>>
    /\ eng_segs = <<>>
    /\ uaf = FALSE
    /\ pc = [t \in Threads |-> "idle"]
    /\ op = [t \in Threads |-> NoOp]
    /\ local = [t \in Threads |-> NoLocal]
    /\ returned = NoReturn
    /\ stream_pushed = 0
    /\ last_delivery = NoDelivery

\* one caller thread
Init == InitSession /\ callers = {"t1"}

\* any number of caller threads (here: two)
InitThreads == InitSession /\ callers = Threads

\* a call of thread t returns value v: the lock_guard, if taken, is released
Return(t, o, l, v) ==
    /\ pc' = [pc EXCEPT ![t] = "idle"]
    /\ op' = [op EXCEPT ![t] = NoOp]
    /\ local' = [local EXCEPT ![t] = NoLocal]
    /\ returned' = Returned(o, l, v)
    /\ UNCHANGED callers

\* a call of thread t goes on at label, holding the mutex
Goto(t, label, o, l) ==
    /\ pc' = [pc EXCEPT ![t] = label]
    /\ op' = [op EXCEPT ![t] = o]
    /\ local' = [local EXCEPT ![t] = l]
    /\ returned' = NoReturn
    /\ mtx' = t
    /\ UNCHANGED callers

\* the session argument of a call: NULL, or the session while it exists (a
\* call that passes the session after its deletion is UseAfterFree)
Usable(c) == c = NULL \/ alive

(***************************************************************************)
(* whisper_bridge_set_language                                             *)
(***************************************************************************)
\* mutant: the language code is stored without validation
LanguageKnown_Any(lang) == TRUE

\* int lang_id = whisper_lang_id(lang); if (lang_id < 0) return -1
LanguageKnown(lang) == whisper_lang_id(lang) >= 0

SetLanguage(t) ==
    \E a \in Calls(LangArgs, SharedLangArgs) :
        LET c == a[1]
            lang == a[2]
            o == [OpOf("set_language", c) EXCEPT !.lang = lang]
        IN
        /\ pc[t] = "idle"
        /\ Usable(c)
        /\ IF c = NULL \/ lang = NULL
             THEN /\ Return(t, o, NoLocal, RvInt(-1))
                  /\ UNCHANGED language
             ELSE /\ CanLock(t)
                  /\ IF lang = "auto"
                       THEN /\ language' = "auto"
                            /\ Return(t, o, NoLocal, RvInt(0))
                       ELSE IF ~LanguageKnown(lang)
                         THEN /\ UNCHANGED language
                              /\ Return(t, o, NoLocal, RvInt(-1))
                         ELSE /\ language' = lang
                              /\ Return(t, o, NoLocal, RvInt(0))
        /\ UNCHANGED <<alive, wctx, mtx, n_threads, streaming, stream_buffer,
                       stream_callback, stream_user_data, last_result_text,
                       engine, history>>

(***************************************************************************)
(* whisper_bridge_set_threads                                              *)
(***************************************************************************)
SetThreads(t) ==
    \E a \in Calls(ThreadArgs, SharedThreadArgs) :
        LET c == a[1]
            n == a[2]
            o == [OpOf("set_threads", c) EXCEPT !.n = n]
        IN
        /\ pc[t] = "idle"
        /\ Usable(c)
        /\ IF c = NULL
             THEN UNCHANGED n_threads
             ELSE /\ CanLock(t)
                  /\ n_threads' = IF n > 0 THEN n ELSE DefaultThreads
        /\ Return(t, o, NoLocal, RvVoid)
        /\ UNCHANGED <<alive, wctx, mtx, language, streaming, stream_buffer,
                       stream_callback, stream_user_data, last_result_text,
                       engine, history>>

(***************************************************************************)
(* whisper_bridge_transcribe                                               *)
(***************************************************************************)
Transcribe(t) ==
    \E a \in Calls(BatchArgs, SharedBatchArgs) :
        LET c == a[1]
            data == a[2]
            len == a[3]
            o == [OpOf("transcribe", c) EXCEPT !.data = data, !.len = len]
        IN
        /\ pc[t] = "idle"
        /\ Usable(c)
        /\ IF c = NULL \/ data = NULL \/ len <= 0
             THEN /\ Return(t, o, NoLocal, RvResult(EmptyResult))
                  /\ UNCHANGED <<last_result_text, eng_segs>>
             ELSE /\ CanLock(t)
                  /\ \E out \in whisper_full(make_params, len), d \in Durations :
                        LET l == [NoLocal EXCEPT
                                    !.ret = out.ret,
                                    !.passes = <<InferencePass(make_params, "batch", 0, len)>>]
                        IN
                        /\ eng_segs' = out.segs
                        /\ IF out.ret # 0
                             THEN /\ UNCHANGED last_result_text
                                  /\ Return(t, o, l, RvResult(EmptyResult))
                             ELSE LET n_segments == Len(out.segs)
                                      l2 == [l EXCEPT !.n_seg = n_segments,
                                                      !.lang_id = out.lang_id,
                                                      !.duration_ms = d]
                                  IN  /\ last_result_text' = ResultText(n_segments)'
                                      /\ Return(t, o, l2,
                                           RvResult(make_result(n_segments, out.lang_id, 0, d)'))
        /\ UNCHANGED <<alive, wctx, mtx, language, n_threads, streaming,
                       stream_buffer, stream_callback, stream_user_data, uaf,
                       history>>

(***************************************************************************)
(* whisper_bridge_stream_start                                             *)
(***************************************************************************)
\* mutant: start does not check the callback
StartRejected_CtxOnly(c, callback) == c = NULL

\* if (!ctx || !callback) return -1
StartRejected(c, callback) == c = NULL \/ callback = NULL

StreamStart(t) ==
    \E a \in Calls(StartArgs, SharedStartArgs) :
        LET c == a[1]
            callback == a[2]
            user_data == a[3]
            o == [OpOf("stream_start", c) EXCEPT !.cb = callback, !.ud = user_data]
        IN
        /\ pc[t] = "idle"
        /\ Usable(c)
        /\ IF StartRejected(c, callback)
             THEN /\ Return(t, o, NoLocal, RvInt(-1))
                  /\ UNCHANGED <<streaming, stream_callback, stream_user_data,
                                 stream_buffer, stream_pushed>>
             ELSE /\ CanLock(t)
                  /\ streaming' = TRUE
                  /\ stream_callback' = callback
                  /\ stream_user_data' = user_data
                  /\ stream_buffer' = BufferClear(stream_buffer)
                  /\ stream_pushed' = 0
                  /\ Return(t, o, [NoLocal EXCEPT !.dropped = stream_buffer],
                            RvInt(0))
        /\ UNCHANGED <<alive, wctx, mtx, language, n_threads, last_result_text,
                       engine, last_delivery>>

(***************************************************************************)
(* whisper_bridge_stream_push                                              *)
(***************************************************************************)
\* mutant: the return code of whisper_full is ignored
PassSucceeded_Always(ret) == TRUE

\* if (ret == 0): the pass succeeded
PassSucceeded(ret) == ret = 0

\* one invocation of the stored callback by thread t for segment i of n_seg
Deliver(t, text, i, n_seg) ==
    /\ local' = [local EXCEPT
                   ![t].i = i + 1,
                   ![t].delivered = Append(@, [cb |-> stream_callback, text |-> text,
                                               is_partial |-> 0,
                                               user_data |-> stream_user_data,
                                               idx |-> i])]
    /\ last_delivery' = [thread |-> t, idx |-> i, n |-> n_seg]

\* the body of a segment loop: if (text && ctx->stream_callback) callback(...)
SegmentLoopStep(t) ==
    LET i == local[t].i
        text == whisper_full_get_segment_text(i)
    IN  /\ IF text # NULL /\ stream_callback # NULL
             THEN Deliver(t, text, i, local[t].n_seg)
             ELSE /\ local' = [local EXCEPT ![t].i = i + 1]
                  /\ UNCHANGED last_delivery
        /\ UNCHANGED <<callers, pc, op>>
        /\ returned' = NoReturn

\* int keep = 16000 / 2; erase all but the last keep samples
KeepTail(buf) ==
    IF ToInt32(buf) > KeepSamples
      THEN BufferEraseFront(buf, buf.size - KeepSamples)
      ELSE buf

\* the step decision: static_cast<int32_t>(size) >= stream_step_samples
StepReached(buf) == ToInt32(buf) >= StepSamples

\* mutant: push does not look at ctx->streaming
NotStreaming_Unchecked == FALSE

\* if (!ctx->streaming) return -1
NotStreaming == ~streaming

\* mutant: push does not check the sample pointer
PushRejected_NoDataCheck(c, data, len) == c = NULL \/ len <= 0

\* if (!ctx || !audio_data || audio_len <= 0) return -1
PushRejected(c, data, len) == c = NULL \/ data = NULL \/ len <= 0

\* up to the end of whisper_full
StreamPush(t) ==
    \E a \in Calls(PushArgs, SharedPushArgs) :
        LET c == a[1]
            data == a[2]
            len == a[3]
            o == [OpOf("stream_push", c) EXCEPT !.data = data, !.len = len]
        IN
        /\ pc[t] = "idle"
        /\ Usable(c)
        /\ IF PushRejected(c, data, len)
             THEN /\ Return(t, o, NoLocal, RvInt(-1))
                  /\ UNCHANGED <<mtx, stream_buffer, eng_segs, stream_pushed>>
             ELSE /\ CanLock(t)
                  /\ IF NotStreaming
                       THEN /\ Return(t, o, NoLocal, RvInt(-1))
                            /\ UNCHANGED <<mtx, stream_buffer, eng_segs,
                                           stream_pushed>>
                       ELSE LET buf == BufferInsert(stream_buffer, len) IN
                            /\ BufferFits(buf)
                            /\ stream_buffer' = buf
                            /\ stream_pushed' = IF len >= StepSamples - stream_pushed
                                                  THEN StepSamples
                                                  ELSE stream_pushed + len
                            /\ IF StepReached(buf)
                                 THEN LET params == [make_params EXCEPT !.single_segment = TRUE] IN
                                      \E out \in whisper_full(params, ToInt32(buf)) :
                                         /\ eng_segs' = out.segs
                                         /\ Goto(t, "push_flush", o,
                                              [NoLocal EXCEPT
                                                 !.ret = out.ret,
                                                 !.n_seg = IF PassSucceeded(out.ret)
                                                             THEN Len(out.segs) ELSE 0,
                                                 !.passes = <<InferencePass(params, "stream",
                                                                            buf.first, ToInt32(buf))>>])
                                 ELSE /\ Return(t, o, NoLocal, RvInt(0))
                                      /\ UNCHANGED <<mtx, eng_segs>>
        /\ UNCHANGED <<alive, wctx, language, n_threads, streaming,
                       stream_callback, stream_user_data, last_result_text, uaf,
                       last_delivery>>

\* one turn of the loop over the segments of a successful pass
PushCallback(t) ==
    /\ pc[t] = "push_flush"
    /\ PassSucceeded(local[t].ret)
    /\ local[t].i < local[t].n_seg
    /\ SegmentLoopStep(t)
    /\ UNCHANGED <<session, engine, stream_pushed>>

\* after the loop, or after a failed pass: keep the overlap and return 0
PushKeep(t) ==
    /\ pc[t] = "push_flush"
    /\ ~PassSucceeded(local[t].ret) \/ local[t].i >= local[t].n_seg
    /\ stream_buffer' = KeepTail(stream_buffer)
    /\ mtx' = NoThread
    /\ last_delivery' = NoDelivery
    /\ Return(t, op[t], local[t], RvInt(0))
    /\ UNCHANGED <<alive, wctx, language, n_threads, streaming, stream_callback,
                   stream_user_data, last_result_text, engine, stream_pushed>>

(***************************************************************************)
(* whisper_bridge_stream_stop                                              *)
(***************************************************************************)
\* mutant: stop leaves the callback context in place
StreamCleared_KeepsUserData ==
    /\ stream_buffer' = EmptyBuffer
    /\ stream_callback' = NULL
    /\ stream_user_data' = stream_user_data
    /\ stream_pushed' = 0

\* mutant: stop leaves the callback in place
StreamCleared_KeepsCallback ==
    /\ stream_buffer' = EmptyBuffer
    /\ stream_callback' = stream_callback
    /\ stream_user_data' = NULL
    /\ stream_pushed' = 0

\* the stream's fields after stop, and the history of the stream that ended
StreamCleared ==
    /\ stream_buffer' = EmptyBuffer
    /\ stream_callback' = NULL
    /\ stream_user_data' = NULL
    /\ stream_pushed' = 0

\* up to the end of whisper_full; all of stop when the buffer is empty
StreamStop(t) ==
    \E c \in Calls(CtxArgs, SharedCtxArgs) :
        LET o == OpOf("stream_stop", c) IN
        /\ pc[t] = "idle"
        /\ Usable(c)
        /\ IF c = NULL
             THEN /\ Return(t, o, NoLocal, RvResult(EmptyResult))
                  /\ UNCHANGED <<mtx, streaming, stream_buffer, stream_callback,
                                 stream_user_data, eng_segs, stream_pushed>>
             ELSE /\ CanLock(t)
                  /\ streaming' = FALSE
                  /\ IF ~BufferEmpty(stream_buffer)
                       THEN \E out \in whisper_full(make_params, ToInt32(stream_buffer)),
                               d \in Durations :
                               /\ eng_segs' = out.segs
                               /\ Goto(t, "stop_flush", o,
                                    [NoLocal EXCEPT
                                       !.ret = out.ret,
                                       !.duration_ms = d,
                                       !.n_seg = IF PassSucceeded(out.ret)
                                                   THEN Len(out.segs) ELSE 0,
                                       !.lang_id = IF PassSucceeded(out.ret)
                                                     THEN out.lang_id ELSE -1,
                                       !.passes = <<InferencePass(make_params, "stream",
                                                      stream_buffer.first,
                                                      ToInt32(stream_buffer))>>])
                               /\ UNCHANGED <<stream_buffer, stream_callback,
                                              stream_user_data, stream_pushed>>
                       ELSE /\ StreamCleared
                            /\ Return(t, o, NoLocal, RvResult(EmptyResult))
                            /\ UNCHANGED <<mtx, eng_segs>>
        /\ UNCHANGED <<alive, wctx, language, n_threads, last_result_text, uaf,
                       last_delivery>>

\* one turn of the loop that fires the final callbacks
StopCallback(t) ==
    /\ pc[t] = "stop_flush"
    /\ PassSucceeded(local[t].ret)
    /\ local[t].i < local[t].n_seg
    /\ SegmentLoopStep(t)
    /\ UNCHANGED <<session, engine, stream_pushed>>

\* mutant: stop builds its result from the engine also after a failed pass
StopResult_Always(l) == make_result(l.n_seg, l.lang_id, 0, l.duration_ms)

\* what stop returns: make_result after a successful pass, else empty
StopResult(l) ==
    IF PassSucceeded(l.ret) THEN make_result(l.n_seg, l.lang_id, 0, l.duration_ms)
    ELSE EmptyResult

\* after the loop, or after a failed pass: clear the stream and return
StopFinish(t) ==
    /\ pc[t] = "stop_flush"
    /\ ~PassSucceeded(local[t].ret) \/ local[t].i >= local[t].n_seg
    /\ StreamCleared
    /\ mtx' = NoThread
    /\ last_delivery' = NoDelivery
    /\ last_result_text' = IF PassSucceeded(local[t].ret)
                             THEN ResultText(local[t].n_seg)
                             ELSE last_result_text
    /\ Return(t, op[t], local[t], RvResult(StopResult(local[t])))
    /\ UNCHANGED <<alive, wctx, language, n_threads, streaming, engine>>

(***************************************************************************)
(* whisper_bridge_free                                                     *)
(***************************************************************************)
\* delete ctx: the object and its members are gone, its storage holds
\* nothing the program may read
Deleted ==
    /\ alive' = FALSE
    /\ language' = "auto"
    /\ n_threads' = DefaultThreads
    /\ streaming' = FALSE
    /\ stream_buffer' = EmptyBuffer
    /\ stream_callback' = NULL
    /\ stream_user_data' = NULL
    /\ last_result_text' = <<>>
    /\ eng_segs' = <<>>
    /\ UNCHANGED stream_pushed
    /\ last_delivery' = NoDelivery

\* free of a null session returns at once; free of the session locks it,
\* releases the engine and deletes the session, with the lock_guard still
\* in scope
Free(t) ==
    \E c \in Calls(CtxArgs, SharedCtxArgs) :
        LET o == OpOf("free", c) IN
        /\ pc[t] = "idle"
        /\ Usable(c)
        /\ IF c = NULL
             THEN /\ Return(t, o, NoLocal, RvVoid)
                  /\ UNCHANGED <<session, engine, history>>
             ELSE /\ CanLock(t)
                  /\ wctx' = NULL
                  /\ Deleted
                  /\ Goto(t, "free_unlock", o, NoLocal)
                  /\ UNCHANGED uaf

\* the end of free's scope: the lock_guard's destructor unlocks the mutex of
\* the deleted session.  The behaviour is undefined: the call returns, or
\* it does not (the thread crashes or hangs in the unlock)
FreeUnlock(t) ==
    /\ pc[t] = "free_unlock"
    /\ uaf' = TRUE
    /\ \/ /\ mtx' = NoThread
          /\ Return(t, op[t], local[t], RvVoid)
       \/ /\ pc' = [pc EXCEPT ![t] = "undefined_unlock"]
          /\ returned' = NoReturn
          /\ UNCHANGED <<mtx, callers, op, local>>
    /\ UNCHANGED <<alive, wctx, language, n_threads, streaming, stream_buffer,
                   stream_callback, stream_user_data, last_result_text,
                   eng_segs, history>>

\* the functions that take a session
Functions == {"set_language", "set_threads", "transcribe", "stream_start",
              "stream_push", "stream_stop", "free"}

\* a call that passes the deleted session, or that waited for its mutex
\* while it was deleted: past the null check it locks the destroyed mutex
\* and works on released storage; what the call then does is undefined
UseAfterFree(t) ==
    \E name \in Functions :
        /\ pc[t] = "idle"
        /\ ~alive
        /\ pc' = [pc EXCEPT ![t] = "undefined_call"]
        /\ op' = [op EXCEPT ![t] = OpOf(name, CTX)]
        /\ uaf' = TRUE
        /\ returned' = NoReturn
        /\ UNCHANGED <<session, eng_segs, callers, local, history>>

(***************************************************************************)
(* Specification                                                           *)
(***************************************************************************)
Next ==
    \/ \E t \in callers : SetLanguage(t)
    \/ \E t \in callers : SetThreads(t)
    \/ \E t \in callers : Transcribe(t)
    \/ \E t \in callers : StreamStart(t)
    \/ \E t \in callers : StreamPush(t)
    \/ \E t \in callers : PushCallback(t)
    \/ \E t \in callers : PushKeep(t)
    \/ \E t \in callers : StreamStop(t)
    \/ \E t \in callers : StopCallback(t)
    \/ \E t \in callers : StopFinish(t)
    \/ \E t \in callers : Free(t)
    \/ \E t \in callers : FreeUnlock(t)
    \/ \E t \in callers : UseAfterFree(t)

\* the session driven by one caller thread
Spec == Init /\ [][Next]_vars

\* the session driven by concurrent caller threads
SpecThreads == InitThreads /\ [][Next]_vars

\* the steps of a call that is past its lock_guard: the thread goes on
Running(t) ==
    \/ PushCallback(t)
    \/ PushKeep(t)
    \/ StopCallback(t)
    \/ StopFinish(t)
    \/ FreeUnlock(t)

\* one caller thread, and a call in progress goes on until it returns
SpecLive == Init /\ [][Next]_vars /\ \A t \in Threads : WF_vars(Running(t))

(***************************************************************************)
(* Properties                                                              *)
(***************************************************************************)
Passes == returned.local.passes
Delivered == returned.local.delivered

\* the call that just returned, by function
PushReturned == returned.op.name = "stream_push"
StopReturned == returned.op.name = "stream_stop"

\* a push that just returned, and was accepted
PushAccepted == PushReturned /\ returned.value = RvInt(0)

\* the samples a push supplies: none when it passes no buffer or no length
PushLength(o) ==
    IF o.name = "stream_push" /\ o.data # NULL /\ o.len > 0 THEN o.len ELSE 0

LongestPush ==
    CHOOSE n \in {a[3] : a \in PushArgs} : \A m \in {a[3] : a \in PushArgs} : m <= n

\* the last min(KeepSamples, n) samples of the buffer an inference pass saw
TailOf(pass) ==
    [first |-> pass.first + pass.n - Min(KeepSamples, pass.n),
     size |-> Min(KeepSamples, pass.n), high |-> 0]

\* the buffer holds fewer than n samples, and fewer than a + b samples
SizeBelow(buf, n) == buf.high = 0 /\ buf.size < n
SizeBelowSum(buf, a, b) ==
    IF buf.high = 0 THEN buf.size - b < a
    ELSE buf.high = 1 /\ (buf.size - a) + 1 < b - Int32Max

\* the callback invocations that forward all segments the engine holds, in
\* order, to the stored callback
AllSegmentsDelivered(delivered) ==
    /\ Len(delivered) = Len(eng_segs)
    /\ \A k \in 1..Len(delivered) :
          delivered[k] = [cb |-> stream_callback, text |-> eng_segs[k],
                          is_partial |-> 0, user_data |-> stream_user_data,
                          idx |-> k - 1]

\* C1: while the samples pushed on an active stream add up to less than
\* StepSamples, no push has run an inference pass or invoked the callback,
\* and the buffer holds exactly the samples pushed.
C1_BelowStepOnlyAppends ==
    (alive /\ streaming /\ stream_pushed < StepSamples) =>
        /\ stream_buffer = [first |-> 0, size |-> stream_pushed, high |-> 0]
        /\ \A t \in Threads : pc[t] # "push_flush"
        /\ PushAccepted => Passes = <<>> /\ Delivered = <<>>

C1_Witness ==
    /\ streaming
    /\ PushAccepted
    /\ returned.op.len = 8000
    /\ stream_pushed = 24000
    /\ stream_buffer.size = 24000

\* C2: a push that brings the buffer to StepSamples or more runs exactly one
\* inference pass, over the whole buffer, invokes the callback once per
\* produced segment, in order, before it returns, and leaves the last
\* min(KeepSamples, pre-flush length) samples in the buffer; an accepted
\* push that runs no pass leaves fewer than StepSamples samples.
C2_FlushAtStep ==
    /\ \A t \in Threads :
          pc[t] = "push_flush" =>
             /\ Len(local[t].passes) = 1
             /\ local[t].passes[1].source = "stream"
             /\ local[t].passes[1].first = stream_buffer.first
             /\ local[t].passes[1].n = stream_buffer.size
             /\ stream_buffer.high = 0
             /\ local[t].passes[1].n >= StepSamples
    /\ (PushAccepted /\ Passes = <<>>) => SizeBelow(stream_buffer, StepSamples)
    /\ (PushReturned /\ Passes # <<>>) =>
          /\ Len(Passes) = 1
          /\ Passes[1].n >= StepSamples
          /\ returned.value = RvInt(0)
          /\ IF returned.local.ret = 0
               THEN AllSegmentsDelivered(Delivered)
               ELSE Delivered = <<>>
          /\ stream_buffer = TailOf(Passes[1])

\* a push of INT32_MAX samples onto 8000 buffered ones has returned 0 without
\* an inference pass: the buffer holds 2^31 + 7999 samples
C2_Witness ==
    /\ streaming
    /\ PushAccepted
    /\ returned.op.len = Int32Max
    /\ Passes = <<>>
    /\ stream_buffer = [first |-> 0, size |-> 7999, high |-> 1]

\* C3: after a push or stop returns (no other call being in progress), the
\* buffer is empty or holds fewer than StepSamples plus that push's length
\* samples, and at most KeepSamples samples if the call ran an inference
\* pass; in every state the buffer holds fewer than StepSamples plus the
\* longest push's length samples.
C3_AccumulatorBounded ==
    /\ ((PushReturned \/ StopReturned) /\ mtx = NoThread) =>
          /\ \/ BufferEmpty(stream_buffer)
             \/ SizeBelowSum(stream_buffer, StepSamples, PushLength(returned.op))
          /\ Passes # <<>> => SizeBelow(stream_buffer, KeepSamples + 1)
    /\ SizeBelowSum(stream_buffer, StepSamples, LongestPush)

\* a push of 8000 samples has returned 0 and the buffer holds 2^31 + 15999
\* samples
C3_Witness ==
    /\ streaming
    /\ PushAccepted
    /\ returned.op.len = 8000
    /\ Passes = <<>>
    /\ stream_buffer = [first |-> 0, size |-> 15999, high |-> 1]

\* C4: a push made while the session is not streaming returns -1, leaves the
\* buffer as it was, runs no inference pass and invokes no callback.
C4_PushWhenNotStreaming ==
    [][(alive /\ ~streaming /\ returned'.op.name = "stream_push"
          /\ returned'.op.ctx = CTX)
        => /\ returned'.value = RvInt(-1)
           /\ stream_buffer' = stream_buffer
           /\ eng_segs' = eng_segs
           /\ returned'.local.passes = <<>>
           /\ returned'.local.delivered = <<>>]_vars

C4_Witness ==
    /\ alive
    /\ ~streaming
    /\ PushReturned
    /\ returned.op = [OpOf("stream_push", CTX) EXCEPT !.data = "buf", !.len = 16000]
    /\ returned.value = RvInt(-1)
    /\ last_result_text # <<>>

\* C5: when the inference pass that a push runs fails, no callback is
\* invoked for it, the buffer is still cut to its last KeepSamples samples,
\* and the push returns 0 with the stream still active, its callback stored
\* and the mutex free for the next push.
C5_FailedFlush ==
    /\ \A t \in Threads :
          (pc[t] = "push_flush" /\ local[t].ret # 0) =>
             local[t].delivered = <<>> /\ streaming
    /\ (PushReturned /\ Passes # <<>> /\ returned.local.ret # 0) =>
          /\ Delivered = <<>>
          /\ stream_buffer = TailOf(Passes[1])
          /\ stream_buffer.size = KeepSamples
          /\ returned.value = RvInt(0)
          /\ streaming
          /\ stream_callback # NULL
          /\ mtx = NoThread

C5_Witness ==
    /\ PushReturned
    /\ Passes # <<>>
    /\ returned.local.ret # 0
    /\ eng_segs # <<>>
    /\ stream_buffer.size = KeepSamples
    /\ streaming

\* C6: stop on the session returns the empty result (empty text, 0 segments,
\* language id -1, duration 0) whenever it ran no inference pass, which it
\* runs exactly when the buffer is not empty, or its pass failed; the
\* session is then not streaming and has no callback.
C6_StopEmptyResult ==
    /\ \A t \in Threads :
          pc[t] = "stop_flush" =>
             local[t].passes # <<>> /\ local[t].passes[1].n # 0
    /\ (StopReturned /\ returned.op.ctx = CTX) =>
          /\ Passes # <<>> => Passes[1].n # 0
          /\ (Passes = <<>> \/ returned.local.ret # 0) =>
                /\ returned.value = RvResult(EmptyResult)
                /\ ~streaming
                /\ stream_callback = NULL

C6_Witness ==
    /\ StopReturned
    /\ Passes # <<>>
    /\ returned.local.ret # 0
    /\ returned.value = RvResult(EmptyResult)
    /\ eng_segs # <<>>

\* C7: after stop on the session returns, on every path, the session is not
\* streaming, the buffer is empty, and the callback and its context are null.
C7_StopResetsStream ==
    (StopReturned /\ returned.op.ctx = CTX) =>
        /\ ~streaming
        /\ BufferEmpty(stream_buffer)
        /\ stream_callback = NULL
        /\ stream_user_data = NULL

C7_Witness ==
    /\ StopReturned
    /\ Passes # <<>>
    /\ returned.local.ret = 0
    /\ Len(Delivered) = 2
    /\ Delivered[1].user_data = "ud1"
    /\ stream_user_data = NULL

\* a language code the engine does not recognise, and that is not "auto"
Unrecognised(lang) == lang # "auto" /\ whisper_lang_id(lang) < 0

\* C8: set_language with a code the engine does not recognise returns -1 and
\* leaves the language as it was; the language is always "auto" or a code
\* the engine recognises; and every inference pass is given the language
\* the session then has.
C8_InvalidLanguageRejected ==
    /\ [](language = "auto" \/ whisper_lang_id(language) >= 0)
    /\ [](\A k \in 1..Len(Passes) :
            /\ Passes[k].params.detect_language = (language = "auto")
            /\ Passes[k].params.language = IF language = "auto" THEN NULL ELSE language)
    /\ [][(alive /\ returned'.op.name = "set_language" /\ returned'.op.ctx = CTX
             /\ Unrecognised(returned'.op.lang))
           => /\ returned'.value = RvInt(-1)
              /\ language' = language]_vars

C8_Witness ==
    /\ language = "en"
    /\ returned.op = [OpOf("set_language", CTX) EXCEPT !.lang = "xx"]
    /\ returned.value = RvInt(-1)

\* C9: in every state of the session, streaming implies a stored callback.
C9_StreamingHasCallback ==
    (alive /\ streaming) => stream_callback # NULL

C9_Witness ==
    /\ streaming
    /\ stream_callback # NULL
    /\ returned.op = [OpOf("stream_start", CTX) EXCEPT !.ud = "ud1"]
    /\ returned.value = RvInt(-1)

\* a thread is in the segment loop of push or of stop
InSegmentLoop(t) == pc[t] \in {"push_flush", "stop_flush"}

\* C10: with concurrent callers, the callback invocations of one inference
\* pass are made in segment order and no invocation of another pass falls
\* between them: while a thread is between two invocations of its loop, the
\* last invocation made by any thread is its own previous one.
C10_DeliveriesContiguous ==
    \A t \in Threads :
        InSegmentLoop(t) =>
           /\ \A k \in 1..Len(local[t].delivered) :
                 local[t].delivered[k].idx = k - 1
           /\ (local[t].delivered # <<>> /\ local[t].i < local[t].n_seg) =>
                 last_delivery = [thread |-> t, idx |-> local[t].i - 1,
                                  n |-> local[t].n_seg]

C10_Witness ==
    /\ callers = Threads
    /\ pc["t1"] = "push_flush"
    /\ local["t1"].n_seg = 2
    /\ Len(local["t1"].delivered) = 1
    /\ returned.op.name = "stream_push"
    /\ returned.op.len = 0
    /\ returned.value = RvInt(-1)

\* the state the session's mutex guards
Guarded == <<wctx, eng_segs, stream_buffer, last_result_text>>

\* the functions that run an inference pass on the engine handle
InferenceFunctions == {"transcribe", "stream_push", "stream_stop"}

\* C11: under any interleaving of the callers' calls, teardown included, the
\* engine handle, the buffer and the result text change only in steps of the
\* thread that holds the mutex, a thread inside a flush holds the mutex of a
\* session that exists with a non-null engine handle, and no call that runs
\* inference works on a session that has been released.
C11_MutexDiscipline ==
    /\ [][\A t \in Threads :
            (mtx = t /\ Guarded' # Guarded) =>
               (pc'[t] # pc[t] \/ local'[t] # local[t])]_vars
    /\ [](\A t \in Threads :
            pc[t] \in {"push_flush", "stop_flush"} =>
               mtx = t /\ alive /\ wctx # NULL)
    /\ [](\A t \in Threads :
            ~(pc[t] = "undefined_call" /\ op[t].name \in InferenceFunctions))

\* one thread has freed the session and returned; the other thread's push,
\* ordered after the free, works on the released session
C11_Witness ==
    /\ callers = Threads
    /\ ~alive
    /\ wctx = NULL
    /\ returned.op.name = "free"
    /\ pc["t1"] = "idle"
    /\ pc["t2"] = "undefined_call"
    /\ op["t2"].name = "stream_push"

\* C12: teardown of a null session, and teardown of a session that has
\* already been freed, is a no-op: the call returns, changes nothing, and
\* touches no released state.
C12_TeardownIdempotent ==
    /\ [][(returned'.op.name = "free" /\ returned'.op.ctx = NULL) =>
            UNCHANGED <<session, engine, history>>]_vars
    /\ [](\A t \in Threads :
            ~(pc[t] = "undefined_call" /\ op[t].name = "free"))

\* the session was freed and the call returned; a second free of the same
\* session works on the released session
C12_Witness ==
    /\ callers = {"t1"}
    /\ ~alive
    /\ mtx = NoThread
    /\ pc["t1"] = "undefined_call"
    /\ op["t1"] = OpOf("free", CTX)

\* C13: teardown of a session whose stream is active takes the mutex once,
\* releases the engine handle and the session, runs no inference pass and
\* invokes no callback, and always completes: the call returns.
C13_TeardownWhileStreaming ==
    /\ [][\A t \in Threads :
            (streaming /\ pc[t] = "idle" /\ pc'[t] = "free_unlock") =>
               /\ mtx = NoThread /\ mtx' = t
               /\ wctx' = NULL /\ ~alive'
               /\ local'[t].passes = <<>> /\ local'[t].delivered = <<>>]_vars
    /\ [](\A t \in Threads : pc[t] = "free_unlock" => mtx = t)
    /\ \A t \in Threads :
          (pc[t] = "free_unlock" /\ stream_pushed > 0) ~> (pc[t] = "idle")

\* teardown of a session with an active stream and buffered samples has
\* deleted the session and is stuck in the unlock of the deleted mutex
C13_Witness ==
    /\ ~alive
    /\ stream_pushed > 0
    /\ pc["t1"] = "undefined_unlock"
    /\ op["t1"] = OpOf("free", CTX)

\* the texts of segs in order, with " " between them
Joined(segs) ==
    [k \in 1..(IF segs = <<>> THEN 0 ELSE 2 * Len(segs) - 1) |->
        IF k % 2 = 1 THEN segs[(k + 1) \div 2] ELSE " "]

\* a call that just returned after a successful inference pass
PassReturned(names) ==
    /\ returned.op.name \in names
    /\ Passes # <<>>
    /\ returned.local.ret = 0

\* C14 as stated: every inference call (a batch transcribe, a push-triggered
\* flush, a stop final pass) replaces last_result_text with the text it
\* produced.
C14_ResultTextOverwritten ==
    PassReturned(InferenceFunctions) => last_result_text = Joined(eng_segs)

\* C14, amended: a batch transcribe and a stop final pass that succeed
\* replace last_result_text with the joined segment texts of that pass and
\* return it; nothing else changes last_result_text of a session: not a
\* push-triggered flush, and not a pass that fails.
C14_ResultTextReplaced ==
    /\ [](PassReturned({"transcribe", "stream_stop"}) =>
            /\ last_result_text = Joined(eng_segs)
            /\ returned.value.res.text = last_result_text
            /\ returned.value.res.alias)
    /\ [][(alive' /\ last_result_text' # last_result_text) =>
            PassReturned({"transcribe", "stream_stop"})']_vars

\* a push-triggered flush produced "a b" and returned; last_result_text is
\* still the "a" of an earlier transcribe
C14_Witness ==
    /\ PassReturned({"stream_push"})
    /\ eng_segs = <<"a", "b">>
    /\ Len(Delivered) = 2
    /\ last_result_text = <<"a">>

\* a call that is rejected for an invalid argument: start without a
\* callback, push or transcribe with no samples
InvalidArgument(o) ==
    \/ o.name = "stream_start" /\ o.cb = NULL
    \/ o.name \in {"stream_push", "transcribe"} /\ (o.data = NULL \/ o.len <= 0)

\* C15: a call rejected for an invalid argument reports failure (-1, or the
\* empty result) and changes no state of the session, also while a stream
\* is active: streaming, buffer, callback and context, language, thread
\* count and result text stay as they were, and so does the engine.
C15_InvalidArgumentNoOp ==
    [][(alive /\ InvalidArgument(returned'.op)) =>
          /\ returned'.value = IF returned'.op.name = "transcribe"
                                 THEN RvResult(EmptyResult) ELSE RvInt(-1)
          /\ UNCHANGED <<session, engine, history>>
          /\ returned'.local = NoLocal]_vars

\* a push with a null sample pointer was rejected while the stream is active
\* and holds buffered samples
C15_Witness ==
    /\ alive
    /\ streaming
    /\ stream_buffer.size = 24000
    /\ last_result_text # <<>>
    /\ returned.op = [OpOf("stream_push", CTX) EXCEPT !.len = 16000]
    /\ returned.value = RvInt(-1)

\* stop has set streaming to false and has returned (or no stream was ever
\* started): the session is not streaming and no stop is in its final pass
Stopped == alive /\ ~streaming /\ \A t \in Threads : pc[t] # "stop_flush"

\* C16: once stop has returned, and until a start succeeds, no callback is
\* invoked, no inference pass is started on the stream, every push on the
\* session returns -1, and only a start that returns 0 makes the session
\* streaming again.
C16_StopPreventsFlushes ==
    /\ [](Stopped => \A t \in Threads : pc[t] # "push_flush")
    /\ [][Stopped =>
            /\ \A t \in Threads :
                  /\ local'[t].delivered = local[t].delivered
                  /\ pc'[t] \notin {"push_flush", "stop_flush"}
            /\ last_delivery' = last_delivery
            /\ (returned'.op.name = "stream_push" /\ returned'.op.ctx = CTX) =>
                  returned'.value = RvInt(-1)
            /\ streaming' =>
                  /\ returned'.op.name = "stream_start"
                  /\ returned'.value = RvInt(0)]_vars

\* a stop whose final pass delivered a segment has returned, with two
\* caller threads
C16_Witness ==
    /\ callers = Threads
    /\ Stopped
    /\ StopReturned
    /\ Passes # <<>>
    /\ Len(Delivered) = 1
    /\ \A t \in Threads : pc[t] = "idle"

\* the callback invocations forward the texts of segs in order, each once,
\* as final segments, to one callback and context
DeliveredInOrder(delivered, segs) ==
    /\ Len(delivered) = Len(segs)
    /\ \A k \in 1..Len(delivered) :
          /\ delivered[k].text = segs[k]
          /\ delivered[k].idx = k - 1
          /\ delivered[k].is_partial = 0
          /\ delivered[k].cb = delivered[1].cb
          /\ delivered[k].cb # NULL
          /\ delivered[k].user_data = delivered[1].user_data

\* C17: stop on a non-empty buffer runs exactly one inference pass, over the
\* whole buffer and without the single-segment restriction; if the pass
\* succeeds the callback is invoked once per segment in order, the result
\* text becomes the joined segment texts, and the result carries that text,
\* the engine's segment count and the detected language id.
C17_StopFinalPass ==
    /\ \A t \in Threads :
          pc[t] = "stop_flush" =>
             /\ Len(local[t].passes) = 1
             /\ local[t].passes[1].source = "stream"
             /\ local[t].passes[1].first = stream_buffer.first
             /\ stream_buffer.high = 0
             /\ local[t].passes[1].n = stream_buffer.size
             /\ ~local[t].passes[1].params.single_segment
    /\ PassReturned({"stream_stop"}) =>
          /\ Len(Passes) = 1
          /\ DeliveredInOrder(Delivered, eng_segs)
          /\ last_result_text = Joined(eng_segs)
          /\ returned.value.kind = "result"
          /\ returned.value.res.text = last_result_text
          /\ returned.value.res.segments = Len(eng_segs)
          /\ returned.value.res.lang_id = returned.local.lang_id
          /\ returned.value.res.lang_id \in
                IF language = "auto" THEN LangIds ELSE {whisper_lang_id(language)}

\* stop runs its final pass on a buffer of 2^31 + 7999 samples: the engine is
\* given a negative sample count
C17_Witness ==
    /\ pc["t1"] = "stop_flush"
    /\ stream_buffer = [first |-> 0, size |-> 7999, high |-> 1]
    /\ local["t1"].passes[1].n < 0

\* a start on the session with a callback has just returned
StartReturned ==
    /\ returned.op.name = "stream_start"
    /\ returned.op.ctx = CTX
    /\ returned.op.cb # NULL

\* C18: start with a non-null callback always succeeds, also on an active
\* stream: it returns 0 and leaves the session streaming, with an empty
\* buffer and the callback and context just passed, without an inference
\* pass or a callback invocation; the samples buffered before are gone: the
\* buffer then holds only what is pushed after the start, and a flush
\* invokes the callback of the last start.
C18_RestartDiscards ==
    /\ (alive /\ StartReturned) =>
          /\ returned.value = RvInt(0)
          /\ streaming
          /\ BufferEmpty(stream_buffer)
          /\ stream_callback = returned.op.cb
          /\ stream_user_data = returned.op.ud
          /\ stream_pushed = 0
          /\ Passes = <<>> /\ Delivered = <<>>
    /\ (alive /\ streaming /\ stream_pushed < StepSamples) =>
          SizeBelow(stream_buffer, stream_pushed + 1)
    /\ \A t \in Threads :
          pc[t] = "push_flush" =>
             \A k \in 1..Len(local[t].delivered) :
                /\ local[t].delivered[k].cb = stream_callback
                /\ local[t].delivered[k].user_data = stream_user_data

\* a start with another callback has returned on a stream that had 24000
\* samples buffered
C18_Witness ==
    /\ alive
    /\ StartReturned
    /\ returned.op.cb = "cb2"
    /\ returned.local.dropped.size = 24000
    /\ stream_callback = "cb2"
    /\ BufferEmpty(stream_buffer)

\* the parameters of a pass are those the session state and the call path
\* name determine
ParamsFromState(params, name) ==
    /\ params.detect_language = (language = "auto")
    /\ params.language = (IF language = "auto" THEN NULL ELSE language)
    /\ params.n_threads = n_threads
    /\ params.single_segment = (name = "stream_push")
    /\ params.no_context /\ params.no_timestamps /\ ~params.translate
    /\ params.best_of = 1

\* C19: every inference pass, of a call in progress or just returned, ran
\* with parameters made from the session state and the call path: detection
\* exactly when the language is "auto", else the language of the session;
\* the thread count of the session; single-segment mode exactly in a push.
\* The language of the session changes only to the code of a set_language
\* that returns 0, set_language("auto") always returns 0, and the thread
\* count changes only to the positive count, or else 4, of a set_threads.
C19_InferenceParameters ==
    /\ [](alive =>
            /\ \A k \in 1..Len(Passes) :
                  ParamsFromState(Passes[k].params, returned.op.name)
            /\ \A t \in Threads : \A k \in 1..Len(local[t].passes) :
                  ParamsFromState(local[t].passes[k].params, op[t].name)
            /\ n_threads > 0
            /\ (returned.op.name = "set_language" /\ returned.op.ctx = CTX
                   /\ returned.op.lang = "auto")
                  => (returned.value = RvInt(0) /\ language = "auto"))
    /\ [][(alive' /\ language' # language) =>
             /\ returned'.op.name = "set_language"
             /\ returned'.value = RvInt(0)
             /\ language' = returned'.op.lang]_vars
    /\ [][(alive' /\ n_threads' # n_threads) =>
             /\ returned'.op.name = "set_threads"
             /\ n_threads' = (IF returned'.op.n > 0 THEN returned'.op.n
                              ELSE DefaultThreads)]_vars

\* a push has returned after a flush that ran in single-segment mode with
\* language "en" on 2 threads
C19_Witness ==
    /\ alive
    /\ PushReturned
    /\ Len(Passes) = 1
    /\ Passes[1].params.single_segment
    /\ Passes[1].params.language = "en"
    /\ ~Passes[1].params.detect_language
    /\ Passes[1].params.n_threads = 2

\* no call on the session is in progress
BetweenOperations == \A t \in Threads : pc[t] = "idle"

\* C20: in every state of the session between operations, when the session
\* is not streaming its buffer is empty and its callback and callback
\* context are null.
C20_IdleStreamIsEmpty ==
    (alive /\ BetweenOperations /\ ~streaming) =>
        /\ BufferEmpty(stream_buffer)
        /\ stream_callback = NULL
        /\ stream_user_data = NULL

\* a stop has returned whose final pass ran over 24000 buffered samples and
\* failed, and the session is idle and not streaming
C20_Witness ==
    /\ alive
    /\ BetweenOperations
    /\ ~streaming
    /\ StopReturned
    /\ Len(Passes) = 1
    /\ Passes[1].n = 24000
    /\ returned.local.ret # 0
    /\ stream_callback = NULL

=============================================================================
